---- MODULE Spec2Model ----
(***************************************************************************)
(* EV betting tracker (src/app.py): one Streamlit script that, on every    *)
(* run, reads all rows of a sheet, normalizes them into bet records,       *)
(* optionally appends one new bet row, filters the records and renders     *)
(* metrics, a cumulative chart and a table.                                *)
(*                                                                         *)
(* Text is a sequence of one-character strings, so that the regex          *)
(* replacements and float()/strftime conversions act on characters.        *)
(* A float is an exact decimal [m, e] standing for m * 10^-e, kept         *)
(* normalized (no trailing zero in the fraction).                          *)
(***************************************************************************)
EXTENDS Integers, Sequences, FiniteSets, TLC

\* ------------------------------------------------------------------ bounds
\* data rows in the sheet when the session starts
MaxDataRows == 2
\* rows a session may append
MaxAppends == 1
\* length of the raw cells enumerated exhaustively (SpecEv, SpecCur)
MaxLen == 3

\* ------------------------------------------------------------------- text
Empty == <<>>
Win == <<"W", "i", "n">>
Loss == <<"L", "o", "s", "s">>
CashedOut == <<"C", "a", "s", "h", "e", "d", " ", "O", "u", "t">>
Pending == <<"P", "e", "n", "d", "i", "n", "g">>
Unknown == <<"U", "n", "k", "n", "o", "w", "n">>
Basketball == <<"B", "a", "s", "k", "e", "t", "b", "a", "l", "l">>
Football == <<"F", "o", "o", "t", "b", "a", "l", "l">>

ColDate == <<"D", "a", "t", "e", " ", "P", "l", "a", "c", "e", "d">>
ColStake == <<"S", "t", "a", "k", "e", " ", "(", "$", ")">>
ColEV == <<"E", "V">>
ColOdds == <<"O", "d", "d", "s">>
ColProfitLoss == <<"P", "r", "o", "f", "i", "t", "/", "L", "o", "s", "s">>
ColResult == <<"R", "e", "s", "u", "l", "t">>
ColGame == <<"G", "a", "m", "e", " ", "N", "a", "m", "e">>
ColSport == <<"S", "p", "o", "r", "t">>

expected_cols ==
  <<ColDate, ColStake, ColEV, ColOdds, ColProfitLoss, ColResult, ColGame, ColSport>>

Digits == <<"0", "1", "2", "3", "4", "5", "6", "7", "8", "9">>

IsDigit(c) == \E k \in 1..10 : Digits[k] = c

DigitVal(c) == (CHOOSE k \in 1..10 : Digits[k] = c) - 1

DigitChar(n) == Digits[n + 1]

\* s with every character of the set chars removed (re.sub of a character class)
RECURSIVE StripChars(_, _)
StripChars(s, chars) ==
  IF s = <<>> THEN <<>>
  ELSE IF Head(s) \in chars THEN StripChars(Tail(s), chars)
       ELSE <<Head(s)>> \o StripChars(Tail(s), chars)

\* --------------------------------------------------------------- decimals
RECURSIVE Pow10(_)
Pow10(n) == IF n = 0 THEN 1 ELSE 10 * Pow10(n - 1)

RECURSIVE DecNorm(_)
DecNorm(d) ==
  IF d.e > 0 /\ d.m % 10 = 0 THEN DecNorm([m |-> d.m \div 10, e |-> d.e - 1]) ELSE d

Dec(m, e) == DecNorm([m |-> m, e |-> e])

Zero == Dec(0, 0)

DecAdd(a, b) ==
  LET e == IF a.e > b.e THEN a.e ELSE b.e
  IN Dec(a.m * Pow10(e - a.e) + b.m * Pow10(e - b.e), e)

DecNeg(a) == Dec(0 - a.m, a.e)

DecSub(a, b) == DecAdd(a, DecNeg(b))

DecMul(a, b) == Dec(a.m * b.m, a.e + b.e)

\* ------------------------------------------------------------------ float()
\* Python's float(text) on the characters the model's cells are made of: an
\* optional '-', then digits with at most one '.', at least one digit. Any other
\* character makes it raise ValueError.
FloatBody(s) == IF s # <<>> /\ Head(s) = "-" THEN Tail(s) ELSE s

CanFloat(s) ==
  LET b == FloatBody(s)
  IN /\ \A i \in 1..Len(b) : IsDigit(b[i]) \/ b[i] = "."
     /\ Cardinality({i \in 1..Len(b) : b[i] = "."}) <= 1
     /\ \E i \in 1..Len(b) : IsDigit(b[i])

RECURSIVE DigitsVal(_)
DigitsVal(s) ==
  IF s = <<>> THEN 0 ELSE 10 * DigitsVal(SubSeq(s, 1, Len(s) - 1)) + DigitVal(s[Len(s)])

FloatOf(s) ==
  LET b == FloatBody(s)
      dot == {i \in 1..Len(b) : b[i] = "."}
      frac == IF dot = {} THEN 0 ELSE Len(b) - (CHOOSE i \in dot : TRUE)
      mag == DigitsVal(StripChars(b, {"."}))
  IN Dec(IF b # s THEN 0 - mag ELSE mag, frac)


\* text of a non-negative integer, at least width characters wide (zero padded)
RECURSIVE IntText(_, _)
IntText(n, width) ==
  IF n < 10 /\ width <= 1 THEN <<DigitChar(n)>>
  ELSE IntText(n \div 10, width - 1) \o <<DigitChar(n % 10)>>

\* The text the sheet holds for a number written with USER_ENTERED: plain decimal
\* notation, the shortest that reads back as the same number.
NumText(d) ==
  LET mag == IF d.m < 0 THEN 0 - d.m ELSE d.m
      all == IntText(mag, d.e + 1)
      int == SubSeq(all, 1, Len(all) - d.e)
      frac == SubSeq(all, Len(all) - d.e + 1, Len(all))
  IN (IF d.m < 0 THEN <<"-">> ELSE <<>>) \o int
       \o (IF d.e > 0 THEN <<".">> \o frac ELSE <<>>)

\* ------------------------------------------------------------------- dates
\* new_date.strftime("%m-%d-%Y"): month first
strftime_monthfirst(dt) ==
  IntText(dt.m, 2) \o <<"-">> \o IntText(dt.d, 2) \o <<"-">> \o IntText(dt.y, 4)

\* new_date.strftime("%d-%m-%Y")
strftime(dt) ==
  IntText(dt.d, 2) \o <<"-">> \o IntText(dt.m, 2) \o <<"-">> \o IntText(dt.y, 4)

\* pandas' not-a-time
NaT == 0

\* pd.to_datetime(text, dayfirst=True, errors='coerce') for one cell, as a sortable
\* day number y*10000 + m*100 + d. Recognized: DD-MM-YYYY with a day 1..31 and a
\* month 1..12; every other cell of the model (empty, letters, currency) is NaT.
to_datetime(s) ==
  IF /\ Len(s) = 10
     /\ s[3] = "-" /\ s[6] = "-"
     /\ \A i \in {1, 2, 4, 5, 7, 8, 9, 10} : IsDigit(s[i])
  THEN LET d == DigitsVal(SubSeq(s, 1, 2))
           m == DigitsVal(SubSeq(s, 4, 5))
           y == DigitsVal(SubSeq(s, 7, 10))
       IN IF d \in 1..31 /\ m \in 1..12 THEN y * 10000 + m * 100 + d ELSE NaT
  ELSE NaT

\* ------------------------------------------------------- load (lines 28-47)
\* dict(zip(headers, row_ext))[col], "" when col is no header: the last header of
\* that name wins, cells beyond the headers are dropped, missing cells are "".
RowCell(headers, row, col) ==
  LET idx == {i \in 1..Len(headers) : headers[i] = col}
  IN IF idx = {} THEN Empty
     ELSE LET i == CHOOSE k \in idx : \A j \in idx : j <= k
          IN IF i <= Len(row) THEN row[i] ELSE Empty

\* one raw record per data row, the eight expected columns and SheetRow
RawRecords(values) ==
  [i \in 1..(Len(values) - 1) |->
     LET c(col) == RowCell(values[1], values[i + 1], col)
     IN [DatePlaced |-> c(ColDate), Stake |-> c(ColStake), EV |-> c(ColEV),
         Odds |-> c(ColOdds), ProfitLoss |-> c(ColProfitLoss),
         Result |-> c(ColResult), GameName |-> c(ColGame), Sport |-> c(ColSport),
         SheetRow |-> (i - 1) + 2]]

\* -------------------------------------------------- normalize (lines 49-59)
\* .replace('[\$,]', '', regex=True).replace('', '0')
CleanCurrency(s) ==
  LET t == StripChars(s, {"$", ","}) IN IF t = Empty THEN <<"0">> ELSE t

\* .replace('%', '', regex=True).replace('', '0')
CleanPercent(s) ==
  LET t == StripChars(s, {"%"}) IN IF t = Empty THEN <<"0">> ELSE t

\* astype(float) over a whole column raises when one cell does not parse
ColumnFloats(col) == \A i \in 1..Len(col) : CanFloat(col[i])

\* the EV column: the try converts the column as it is; the except, entered when
\* any cell fails, strips '%' from every cell and converts again (uncaught)
EvTryOk(raw) == ColumnFloats([i \in 1..Len(raw) |-> raw[i].EV])

EvExceptOk(raw) == ColumnFloats([i \in 1..Len(raw) |-> CleanPercent(raw[i].EV)])

EvValue(raw, i) ==
  IF EvTryOk(raw) THEN FloatOf(raw[i].EV) ELSE FloatOf(CleanPercent(raw[i].EV))

\* whether lines 50-56 run without an uncaught ValueError
NormalizeOk(raw) ==
  /\ ColumnFloats([i \in 1..Len(raw) |-> CleanCurrency(raw[i].Stake)])
  /\ ColumnFloats([i \in 1..Len(raw) |-> CleanCurrency(raw[i].ProfitLoss)])
  /\ (EvTryOk(raw) \/ EvExceptOk(raw))

\* .fillna('').replace('', dflt)
FillDefault(s, dflt) == IF s = Empty THEN dflt ELSE s

\* ------------------------------------------------- profit (lines 62-73)
calc_real_nocashout(r) ==
  IF r.Result = Win THEN DecSub(r.ProfitLoss, r.Stake)
  ELSE IF r.Result = Loss THEN DecNeg(r.Stake)
  ELSE Zero

calc_real(r) ==
  IF r.Result = Win THEN DecSub(r.ProfitLoss, r.Stake)
  ELSE IF r.Result = Loss THEN DecNeg(r.Stake)
  ELSE IF r.Result = CashedOut THEN DecSub(r.ProfitLoss, r.Stake)
  ELSE Zero

calc_expected(r) == DecMul(r.Stake, r.EV)

\* the data frame after lines 50-73
Normalized(raw) ==
  [i \in 1..Len(raw) |->
     LET r == [DatePlaced |-> raw[i].DatePlaced,
               Stake |-> FloatOf(CleanCurrency(raw[i].Stake)),
               EV |-> EvValue(raw, i),
               Odds |-> raw[i].Odds,
               ProfitLoss |-> FloatOf(CleanCurrency(raw[i].ProfitLoss)),
               Result |-> FillDefault(raw[i].Result, Pending),
               GameName |-> raw[i].GameName,
               Sport |-> FillDefault(raw[i].Sport, Unknown),
               SheetRow |-> raw[i].SheetRow]
     IN [DatePlaced |-> r.DatePlaced, Stake |-> r.Stake, EV |-> r.EV, Odds |-> r.Odds,
         ProfitLoss |-> r.ProfitLoss, Result |-> r.Result, GameName |-> r.GameName,
         Sport |-> r.Sport, SheetRow |-> r.SheetRow,
         RealProfit |-> calc_real(r), ExpectedProfit |-> calc_expected(r)]]

\* ------------------------------------------------ dashboard (lines 94-141)
\* Series.unique(): the distinct values in order of first appearance
RECURSIVE Unique(_)
Unique(s) ==
  IF s = <<>> THEN <<>>
  ELSE LET u == Unique(SubSeq(s, 1, Len(s) - 1))
       IN IF \E i \in 1..Len(u) : u[i] = s[Len(s)] THEN u ELSE Append(u, s[Len(s)])

Range(s) == {s[i] : i \in 1..Len(s)}

RECURSIVE SelectSeq2(_, _)
\* the rows of s whose index is in keep, in order (boolean-mask indexing)
SelectSeq2(s, keep) ==
  IF s = <<>> THEN <<>>
  ELSE LET front == SelectSeq2(SubSeq(s, 1, Len(s) - 1), keep)
       IN IF Len(s) \in keep THEN Append(front, s[Len(s)]) ELSE front

dyn_results_of(frame) == Unique([i \in 1..Len(frame) |-> frame[i].Result])

\* the sport options with "Unknown" left in
dyn_sports_all(frame) == Unique([i \in 1..Len(frame) |-> frame[i].Sport])

dyn_sports_of(frame) ==
  LET u == Unique([i \in 1..Len(frame) |-> frame[i].Sport])
  IN SelectSeq2(u, {i \in 1..Len(u) : u[i] # Unknown})

\* lines 103-106: the mask, then the date coercion and dropna
Filtered(frame, sel_results, sel_sports) ==
  LET masked == SelectSeq2(frame, {i \in 1..Len(frame) :
                    frame[i].Result \in sel_results /\ frame[i].Sport \in sel_sports})
      dated == [i \in 1..Len(masked) |->
                  [masked[i] EXCEPT !.DatePlaced = to_datetime(masked[i].DatePlaced)]]
  IN SelectSeq2(dated, {i \in 1..Len(dated) : dated[i].DatePlaced # NaT})

RECURSIVE SumReal(_)
SumReal(f) == IF f = <<>> THEN Zero ELSE DecAdd(SumReal(Tail(f)), Head(f).RealProfit)

RECURSIVE SumExpected(_)
SumExpected(f) ==
  IF f = <<>> THEN Zero ELSE DecAdd(SumExpected(Tail(f)), Head(f).ExpectedProfit)

RECURSIVE SumStake(_)
SumStake(f) == IF f = <<>> THEN Zero ELSE DecAdd(SumStake(Tail(f)), Head(f).Stake)

\* the group keys in order of first appearance (groupby(sort=False))
GroupKeysUnsorted(f) == Unique([i \in 1..Len(f) |-> f[i].DatePlaced])

RECURSIVE SortAsc(_)
SortAsc(S) ==
  IF S = {} THEN <<>>
  ELSE LET lo == CHOOSE x \in S : \A y \in S : x <= y IN <<lo>> \o SortAsc(S \ {lo})

\* groupby('Date Placed'): the distinct keys, sorted ascending
GroupKeys(f) == SortAsc({f[i].DatePlaced : i \in 1..Len(f)})

\* .sum() of each group, one row per key
GroupSums(f) ==
  LET keys == GroupKeys(f)
  IN [k \in 1..Len(keys) |->
        LET g == SelectSeq2(f, {i \in 1..Len(f) : f[i].DatePlaced = keys[k]})
        IN [DatePlaced |-> keys[k], RealProfit |-> SumReal(g),
            ExpectedProfit |-> SumExpected(g)]]

RECURSIVE CumSum(_)
CumSum(g) ==
  IF Len(g) <= 1 THEN g
  ELSE LET front == CumSum(SubSeq(g, 1, Len(g) - 1))
           prev == front[Len(front)]
           cur == g[Len(g)]
       IN Append(front, [DatePlaced |-> cur.DatePlaced,
                         RealProfit |-> DecAdd(prev.RealProfit, cur.RealProfit),
                         ExpectedProfit |-> DecAdd(prev.ExpectedProfit, cur.ExpectedProfit)])

\* line 124
ChartOf(f) == CumSum(GroupSums(f))

\* line 141: df_filtered[expected_cols]
TableOf(f) ==
  [i \in 1..Len(f) |->
     <<f[i].DatePlaced, f[i].Stake, f[i].EV, f[i].Odds, f[i].ProfitLoss, f[i].Result,
       f[i].GameName, f[i].Sport>>]

NoMetrics == [profit |-> Zero, turnover |-> Zero, bets_count |-> 0]

\* ------------------------------------------------------------------ state
VARIABLES
  store,             \* the sheet: rows of text cells, the header row first
  appends,           \* rows appended in this session
  pc,                \* where the script run stands
  error,             \* what stopped the run: "none", "denied", "nodata",
                     \* "ValueError" (uncaught, lines 50-56), "AppendError"
  all_values,        \* what ws.get_all_values() returned in this run
  df,                \* the data frame: raw after the load, typed after line 59
  form,              \* the submitted widget values (<<>>: nothing submitted)
  success,           \* "Bet added! Refresh to update." is shown
  selected_results,  \* the result multiselect
  selected_sports,   \* the sport multiselect
  dyn_results,       \* the options of the result multiselect
  dyn_sports,        \* the options of the sport multiselect
  df_filtered,
  metrics,           \* profit, turnover, bets_count
  chart_df,
  table

vars ==
  <<store, appends, pc, error, all_values, df, form, success, selected_results,
    selected_sports, dyn_results, dyn_sports, df_filtered, metrics, chart_df, table>>

\* ----------------------------------------------------------------- inputs
\* the widget values of the submissions explored (lines 78-85): stake and ev are
\* not negative (min_value=0.0), result and sport are options of their selectboxes
FormDates == {[d |-> 1, m |-> 2, y |-> 2024], [d |-> 2, m |-> 1, y |-> 2024]}

FormChoices == {<<Win, Basketball>>, <<Pending, Football>>}

FormInputs ==
  {[new_date |-> dt, new_stake |-> Dec(15, 1), new_ev |-> Dec(25, 2),
    new_odds |-> Empty, new_profit |-> Dec(4, 0), new_result |-> c[1],
    new_game |-> <<"G">>, new_sport |-> c[2]] : dt \in FormDates, c \in FormChoices}

\* the result selections explored: the default (every option) or one option removed
ResultSelections(opts) == {Range(opts)} \cup {Range(opts) \ {x} : x \in Range(opts)}

\* ------------------------------------------------------------- sheet contents
Void == <<"V", "o", "i", "d">>
Jan2 == <<"0", "2", "-", "0", "1", "-", "2", "0", "2", "4">>
Feb1 == <<"0", "1", "-", "0", "2", "-", "2", "0", "2", "4">>

Bet(date, stake, ev, pl, result, sport) ==
  [date |-> date, stake |-> stake, ev |-> ev, pl |-> pl, result |-> result,
   sport |-> sport]

CellFor(col, b) ==
  CASE col = ColDate -> b.date
    [] col = ColStake -> b.stake
    [] col = ColEV -> b.ev
    [] col = ColProfitLoss -> b.pl
    [] col = ColResult -> b.result
    [] col = ColSport -> b.sport
    [] col = ColGame -> <<"G">>
    [] OTHER -> <<"x">>

\* the sheet row holding bet b under the header row h
RowFor(h, b) == [i \in 1..Len(h) |-> CellFor(h[i], b)]

\* a header row in another order, without EV, Odds and Game Name, with a column
\* the script does not know
HeaderOther == <<ColSport, ColResult, <<"N", "o", "t", "e", "s">>, ColStake, ColDate,
                 ColProfitLoss>>

\* every sheet with a header row h of the domain of rows and at most MaxDataRows
\* data rows of rows[h], and the sheet with no row at all
Sheets(rows) ==
  {<<>>} \cup UNION {UNION {{<<h>> \o data : data \in [1..n -> rows[h]]} :
                        n \in 0..MaxDataRows} : h \in DOMAIN rows}

CleanBet == Bet(Feb1, <<"$", "1", "0">>, <<"0", ".", "5">>, <<"2", "5">>, Win, Basketball)

MainBets ==
  { CleanBet,
    Bet(Jan2, <<"5">>, Empty, Empty, Loss, Empty),
    Bet(<<"a">>, <<"$", "1", ",", "0">>, <<"5", "%">>, <<"2">>, Empty, Football),
    Bet(Jan2, <<"a">>, <<"0", ".", "5">>, <<"1">>, Win, Basketball),
    Bet(Jan2, <<"-", "$", "2">>, <<"1">>, <<"1">>, CashedOut, Football) }

\* full rows, a row cut short, and a row with a cell beyond the header
MainRows(h) ==
  {RowFor(h, b) : b \in MainBets}
    \cup {SubSeq(RowFor(h, CleanBet), 1, 2), RowFor(h, CleanBet) \o <<<<"x">>>>}

MainSheets == Sheets([h \in {expected_cols, HeaderOther} |-> MainRows(h)])

\* --------------------------------------------------------------------- run
Fresh ==
  /\ pc = "start"
  /\ error = "none"
  /\ all_values = <<>>
  /\ df = <<>>
  /\ form = <<>>
  /\ success = FALSE
  /\ selected_results = {}
  /\ selected_sports = {}
  /\ dyn_results = <<>>
  /\ dyn_sports = <<>>
  /\ df_filtered = <<>>
  /\ metrics = NoMetrics
  /\ chart_df = <<>>
  /\ table = <<>>

Init ==
  /\ store \in MainSheets
  /\ appends = 0
  /\ Fresh

output == <<df_filtered, metrics, chart_df, table, selected_results, selected_sports,
            dyn_results, dyn_sports>>

\* lines 5-8: the password gate
EnterPassword ==
  /\ pc = "start"
  /\ \E ok \in BOOLEAN :
       IF ok THEN pc' = "authed" /\ error' = error
       ELSE pc' = "stopped" /\ error' = "denied"
  /\ UNCHANGED <<store, appends, all_values, df, form, success, output>>

\* the no-data guard with its bound off by one (len(all_values) < 1)
TooFewRowsOff(values) == Len(values) < 1

\* line 30
TooFewRows(values) == Len(values) < 2

\* lines 28-47: read every row; stop without data; else one raw record per row
LoadRows ==
  /\ pc = "authed"
  /\ all_values' = store
  /\ IF TooFewRows(store)
     THEN pc' = "stopped" /\ error' = "nodata" /\ df' = df
     ELSE pc' = "loaded" /\ error' = error /\ df' = RawRecords(store)
  /\ UNCHANGED <<store, appends, form, success, output>>

\* lines 49-73: clean the columns and attach the profits; a cell that does not
\* convert raises out of the script
Normalize ==
  /\ pc = "loaded"
  /\ IF NormalizeOk(df)
     THEN pc' = "normalized" /\ error' = error /\ df' = Normalized(df)
     ELSE pc' = "crashed" /\ error' = "ValueError" /\ df' = df
  /\ UNCHANGED <<store, appends, all_values, form, success, output>>

\* lines 87-90: the appended row
BetRow(f) ==
  <<strftime(f.new_date), NumText(f.new_stake), NumText(f.new_ev), f.new_odds,
    NumText(f.new_profit), f.new_result, f.new_game, f.new_sport>>

\* the success message shown whatever the append did
SuccessShownAlways(ok) == TRUE

\* line 91 is reached only when append_row returned
SuccessShown(ok) == ok

\* lines 75-91: the form; a submission appends one row, and an append that fails
\* raises out of the script
AddBetForm ==
  /\ pc = "normalized"
  /\ \E submitted \in BOOLEAN :
       IF ~submitted
       THEN pc' = "form" /\ UNCHANGED <<store, appends, form, success, error>>
       ELSE /\ appends < MaxAppends
            /\ \E f \in FormInputs, ok \in BOOLEAN :
                 /\ form' = <<f>>
                 /\ success' = SuccessShown(ok)
                 /\ IF ok
                    THEN /\ store' = Append(store, BetRow(f))
                         /\ appends' = appends + 1
                         /\ pc' = "form" /\ error' = error
                    ELSE /\ pc' = "crashed" /\ error' = "AppendError"
                         /\ UNCHANGED <<store, appends>>
  /\ UNCHANGED <<all_values, df, output>>

\* lines 94-141: the filters, the metrics, the chart and the table. The yield and
\* ROI percentages (lines 112-113) are display-only quotients of profit and are
\* left out, with the initial capital they read.
Dashboard ==
  /\ pc = "form"
  /\ dyn_results' = dyn_results_of(df)
  /\ dyn_sports' = dyn_sports_of(df)
  /\ \E sr \in ResultSelections(dyn_results'), ss \in SUBSET Range(dyn_sports') :
       /\ selected_results' = sr
       /\ selected_sports' = ss
       /\ df_filtered' = Filtered(df, sr, ss)
  /\ metrics' = [profit |-> SumReal(df_filtered'), turnover |-> SumStake(df_filtered'),
                 bets_count |-> Len(df_filtered')]
  /\ chart_df' = ChartOf(df_filtered')
  /\ table' = TableOf(df_filtered')
  /\ pc' = "done"
  /\ UNCHANGED <<store, appends, error, all_values, df, form, success>>

\* Streamlit runs the script again from the top on the next interaction
Rerun ==
  /\ pc \in {"done", "stopped", "crashed"}
  /\ pc' = "start"
  /\ error' = "none"
  /\ all_values' = <<>>
  /\ df' = <<>>
  /\ form' = <<>>
  /\ success' = FALSE
  /\ selected_results' = {}
  /\ selected_sports' = {}
  /\ dyn_results' = <<>>
  /\ dyn_sports' = <<>>
  /\ df_filtered' = <<>>
  /\ metrics' = NoMetrics
  /\ chart_df' = <<>>
  /\ table' = <<>>
  /\ UNCHANGED <<store, appends>>

Next == EnterPassword \/ LoadRows \/ Normalize \/ AddBetForm \/ Dashboard \/ Rerun

Spec == Init /\ [][Next]_vars

\* ------------------------------------------------- other sheets to start from
\* every text of at most MaxLen characters of the alphabet
Texts(alphabet) == UNION {[1..n -> alphabet] : n \in 0..MaxLen}

\* one data row whose EV cell is any text, and at most one more row
EvSheets ==
  LET row(ev) == RowFor(expected_cols, [CleanBet EXCEPT !.ev = ev])
  IN UNION {{<<expected_cols, row(ev)>>}
              \cup {<<expected_cols, row(ev), row(other)>> :
                      other \in {Empty, <<"5">>, <<"5", "%">>, <<"a">>}} :
            ev \in Texts({"5", ".", "%", "-", "a"})}

InitEv ==
  /\ store \in EvSheets
  /\ appends = 0
  /\ Fresh

SpecEv == InitEv /\ [][Next]_vars

\* one data row whose stake cell is any text, and at most one more row
CurSheets ==
  LET row(stake) == RowFor(expected_cols, [CleanBet EXCEPT !.stake = stake])
  IN UNION {{<<expected_cols, row(stake)>>}
              \cup {<<expected_cols, row(stake), row(other)>> :
                      other \in {Empty, <<"$", "2">>}} :
            stake \in Texts({"$", ",", "-", "1", "."})}

InitCur ==
  /\ store \in CurSheets
  /\ appends = 0
  /\ Fresh

SpecCur == InitCur /\ [][Next]_vars

\* a row for every kind of result, over two pairs of amounts
CalcBets ==
  {Bet(Feb1, <<"$", "1", "0">>, <<"0", ".", "5">>, <<"2", "5">>, r, Basketball) :
     r \in {Win, CashedOut, Pending, <<"w", "i", "n">>}}
    \cup {Bet(Feb1, <<"2", ".", "5">>, <<"0", ".", "5">>, <<"-", "1">>, r, Basketball) :
            r \in {Loss, Empty, Void}}

CalcRows(h) == {RowFor(h, b) : b \in CalcBets}

InitCalc ==
  /\ store \in Sheets([h \in {expected_cols} |-> CalcRows(h)])
  /\ appends = 0
  /\ Fresh

SpecCalc == InitCalc /\ [][Next]_vars

\* rows over dates (two days, out of order, one unparsable), results and sports
AggBets ==
  { CleanBet,
    Bet(Jan2, <<"5">>, <<"0", ".", "5">>, <<"0">>, Loss, Basketball),
    Bet(Jan2, <<"4">>, <<"1">>, <<"6">>, CashedOut, Football),
    Bet(Feb1, <<"3">>, <<"5", "%">>, <<"9">>, Void, Football),
    Bet(Jan2, <<"2">>, <<"0", ".", "5">>, <<"7">>, Empty, Empty),
    Bet(<<"a">>, <<"1", "0">>, <<"0", ".", "5">>, <<"2", "5">>, Win, Basketball),
    Bet(Feb1, <<"5">>, <<"0", ".", "5">>, <<"8">>, Win, Empty) }

AggRows(h) == {RowFor(h, b) : b \in AggBets}

InitAgg ==
  /\ store \in Sheets([h \in {expected_cols} |-> AggRows(h)])
  /\ appends = 0
  /\ Fresh

SpecAgg == InitAgg /\ [][Next]_vars

\* ------------------------------------------------------------------ claims
\* the raw text of column col in the i-th data row of the rows read
RawCell(i, col) == RowCell(all_values[1], all_values[i + 1], col)

\* lines 50-59 have run to the end in this run: df holds typed records
Typed == pc \in {"normalized", "form", "done"} \/ error = "AppendError"

\* lines 50-59 were entered in this run
NormalizeEntered == Typed \/ error = "ValueError"

\* the two-stage EV fallback as the claim states it, cell by cell
ClaimedEv(s) ==
  IF CanFloat(s) THEN FloatOf(s)
  ELSE IF s # <<>> /\ s[Len(s)] = "%" /\ CanFloat(SubSeq(s, 1, Len(s) - 1))
       THEN LET v == FloatOf(SubSeq(s, 1, Len(s) - 1)) IN Dec(v.m, v.e + 2)
       ELSE Zero

\* C1: every raw EV cell yields, whatever the other cells hold: its float when it
\* parses directly; else prefix/100 when it ends in '%' and the prefix parses;
\* else 0.0.
C1_EvTwoStage ==
  NormalizeEntered =>
    /\ Typed
    /\ \A i \in 1..Len(df) : df[i].EV = ClaimedEv(RawCell(i, ColEV))

\* C2: with a header row and a data row, whatever the cells hold, the run never
\* raises on a cell: a malformed currency cell is 0, a malformed EV cell is 0.0,
\* and a record whose date does not parse is dropped from the filtered set while
\* every other selected record is kept.
C2_NeverRaises ==
  /\ error # "ValueError"
  /\ Typed =>
       \A i \in 1..Len(df) :
         /\ ~CanFloat(CleanCurrency(RawCell(i, ColStake))) => df[i].Stake = Zero
         /\ ~CanFloat(CleanCurrency(RawCell(i, ColProfitLoss))) => df[i].ProfitLoss = Zero
  /\ pc = "done" =>
       \A i \in 1..Len(df) :
         (\E j \in 1..Len(df_filtered) : df_filtered[j].SheetRow = df[i].SheetRow)
           <=> /\ df[i].Result \in selected_results
               /\ df[i].Sport \in selected_sports
               /\ to_datetime(df[i].DatePlaced) # NaT

\* C3: calc_real gives profitLoss - stake for "Win", -stake for "Loss",
\* profitLoss - stake for "Cashed Out", and 0 for every other result, whatever
\* profitLoss and stake are.
C3_CalcReal ==
  Typed =>
    \A i \in 1..Len(df) :
      LET r == df[i]
      IN /\ r.Result = Win => r.RealProfit = DecSub(r.ProfitLoss, r.Stake)
         /\ r.Result = Loss => r.RealProfit = DecNeg(r.Stake)
         /\ r.Result = CashedOut => r.RealProfit = DecSub(r.ProfitLoss, r.Stake)
         /\ r.Result \notin {Win, Loss, CashedOut} => r.RealProfit = Zero

\* C3 witness: an unrecognized result and a cashed-out bet, both with amounts that
\* differ, have been given their profits
C3_Witness ==
  /\ Typed
  /\ \E i, j \in 1..Len(df) :
       /\ df[i].Result = Void /\ df[i].ProfitLoss # df[i].Stake
       /\ df[i].RealProfit = Zero
       /\ df[j].Result = CashedOut /\ df[j].RealProfit # Zero

\* C4: every stake cell cleans to a number >= 0, the empty cell to 0.0, so every
\* normalized record has stake >= 0.
C4_StakeNonNegative ==
  Typed =>
    \A i \in 1..Len(df) :
      /\ df[i].Stake.m >= 0
      /\ RawCell(i, ColStake) = Empty => df[i].Stake = Zero

\* this run has read the sheet
ReadDone == pc \notin {"start", "authed"} /\ error # "denied"

Nothing ==
  /\ df = <<>> /\ df_filtered = <<>> /\ metrics = NoMetrics
  /\ chart_df = <<>> /\ table = <<>> /\ form = <<>> /\ ~success

\* C5: when the read returns fewer than two rows the run reports the no-data error
\* and halts with no record, metric, chart or table and no substituted data; a run
\* that goes on has read at least two rows.
C5_NoDataHalts ==
  ReadDone =>
    IF Len(all_values) < 2
    THEN pc = "stopped" /\ error = "nodata" /\ Nothing /\ store = all_values
    ELSE error # "nodata" /\ pc # "stopped"

\* C5 witness: a sheet with only its header row was read
C5_Witness == ReadDone /\ Len(all_values) = 1 /\ error = "nodata"

\* C6: a submission whose append fails never shows the success message and ends the
\* run with the failure; the records a run works on are those read before the
\* append, so an appended row is seen only by a later run.
C6_FailedAppend ==
  /\ error = "AppendError" =>
       /\ pc = "crashed" /\ ~success /\ form # <<>>
       /\ store = all_values
       /\ df_filtered = <<>> /\ chart_df = <<>> /\ table = <<>>
  /\ success => form # <<>> /\ error = "none" /\ Len(store) = Len(all_values) + 1
  /\ Typed =>
       /\ Len(df) = Len(all_values) - 1
       /\ \A i \in 1..Len(df) :
            df[i].SheetRow = i + 1 /\ df[i].DatePlaced = RawCell(i, ColDate)
  /\ pc = "done" =>
       \A j \in 1..Len(df_filtered) : df_filtered[j].SheetRow <= Len(all_values)

\* C6 witness: an append has failed
C6_Witness == error = "AppendError" /\ form # <<>> /\ pc = "crashed"

\* C7 as stated: an empty sport cell becomes "Unknown"; the default sport filter
\* leaves the record out; and "Unknown" is there for the user to select, in which
\* case the record is kept.
C7_UnknownSelectable ==
  pc = "done" =>
    \A i \in 1..Len(df) :
      RawCell(i, ColSport) = Empty =>
        /\ df[i].Sport = Unknown
        /\ selected_sports = Range(dyn_sports) =>
             \A j \in 1..Len(df_filtered) : df_filtered[j].SheetRow # df[i].SheetRow
        /\ Unknown \in Range(dyn_sports)

\* C7 amended: an empty sport cell becomes "Unknown"; "Unknown" is never among the
\* sport options, so under the default and under every other selection the record
\* is left out of the filtered set.
C7_UnknownNeverShown ==
  /\ Typed => \A i \in 1..Len(df) : RawCell(i, ColSport) = Empty => df[i].Sport = Unknown
  /\ pc = "done" =>
       /\ selected_sports \subseteq Range(dyn_sports)
       /\ Unknown \notin Range(dyn_sports)
       /\ \A i \in 1..Len(df) :
            df[i].Sport = Unknown =>
              \A j \in 1..Len(df_filtered) : df_filtered[j].SheetRow # df[i].SheetRow

\* C7 witness: under the default filters a record with an empty sport cell is left
\* out while another record is shown
C7_Witness ==
  /\ pc = "done"
  /\ selected_sports = Range(dyn_sports) /\ selected_results = Range(dyn_results)
  /\ df_filtered # <<>>
  /\ \E i \in 1..Len(df) : RawCell(i, ColSport) = Empty /\ to_datetime(df[i].DatePlaced) # NaT

\* the sum of one profit column over the filtered records of the index set S
RECURSIVE SumOver(_, _)
SumOver(S, real) ==
  IF S = {} THEN Zero
  ELSE LET i == CHOOSE x \in S : TRUE
       IN DecAdd(IF real THEN df_filtered[i].RealProfit
                 ELSE df_filtered[i].ExpectedProfit,
                 SumOver(S \ {i}, real))

OnDay(d) == {i \in 1..Len(df_filtered) : df_filtered[i].DatePlaced = d}

\* C8: the chart has one entry per distinct date of the filtered records, strictly
\* ascending; each series starts at the first day's sum and grows by each day's
\* sum; the last real entry is the total profit.
C8_TimeSeries ==
  pc = "done" =>
    /\ {chart_df[k].DatePlaced : k \in 1..Len(chart_df)}
         = {df_filtered[i].DatePlaced : i \in 1..Len(df_filtered)}
    /\ \A k \in 1..(Len(chart_df) - 1) : chart_df[k].DatePlaced < chart_df[k + 1].DatePlaced
    /\ \A k \in 1..Len(chart_df) :
         LET day == OnDay(chart_df[k].DatePlaced)
         IN /\ chart_df[k].RealProfit =
                 IF k = 1 THEN SumOver(day, TRUE)
                 ELSE DecAdd(chart_df[k - 1].RealProfit, SumOver(day, TRUE))
            /\ chart_df[k].ExpectedProfit =
                 IF k = 1 THEN SumOver(day, FALSE)
                 ELSE DecAdd(chart_df[k - 1].ExpectedProfit, SumOver(day, FALSE))
    /\ chart_df # <<>> => chart_df[Len(chart_df)].RealProfit = metrics.profit

\* C8 witness: two days on the chart, one of them with two bets, the later day's
\* bet first in the sheet, and a profit that is not zero
C8_Witness ==
  /\ pc = "done"
  /\ Len(chart_df) = 2 /\ Len(df_filtered) = 3
  /\ df_filtered[1].DatePlaced > df_filtered[2].DatePlaced
  /\ chart_df[1].RealProfit # Zero /\ chart_df[2].RealProfit # chart_df[1].RealProfit

\* C9: the sheet changes only when a submission succeeds, and then by one row of
\* eight cells after the rows it had, which stay as they were: the date as
\* DD-MM-YYYY, stake, ev, odds, profitLoss, result, gameName, sport.
C9_AppendOnly ==
  [][store' # store =>
       /\ pc = "normalized" /\ pc' = "form" /\ success' /\ form' # <<>>
       /\ Len(store') = Len(store) + 1
       /\ SubSeq(store', 1, Len(store)) = store
       /\ LET row == store'[Len(store')]
              f == form'[1]
          IN /\ Len(row) = 8
             /\ Len(row[1]) = 10
             /\ to_datetime(row[1]) = f.new_date.y * 10000 + f.new_date.m * 100 + f.new_date.d
             /\ CanFloat(row[2]) /\ FloatOf(row[2]) = f.new_stake
             /\ CanFloat(row[3]) /\ FloatOf(row[3]) = f.new_ev
             /\ row[4] = f.new_odds
             /\ CanFloat(row[5]) /\ FloatOf(row[5]) = f.new_profit
             /\ row[6] = f.new_result
             /\ row[7] = f.new_game
             /\ row[8] = f.new_sport]_vars

\* C9 witness: a submission has appended its row
C9_Witness ==
  /\ pc = "form" /\ success
  /\ Len(store) = Len(all_values) + 1
  /\ store[Len(store)][6] = form[1].new_result

\* C10: with a header row and a data row, whatever the header names and the number
\* of cells per row, normalization yields one record per data row with all eight
\* fields, a missing cell counting as empty text, and the i-th record has
\* sourceRowIndex i + 1.
C10_OneRecordPerRow ==
  (ReadDone /\ Len(all_values) >= 2 /\ pc # "loaded") =>
    /\ Typed
    /\ Len(df) = Len(all_values) - 1
    /\ \A i \in 1..Len(df) :
         /\ df[i].SheetRow = i + 1
         /\ RawCell(i, ColResult) = Empty => df[i].Result = Pending
         /\ RawCell(i, ColSport) = Empty => df[i].Sport = Unknown
         /\ RawCell(i, ColStake) = Empty => df[i].Stake = Zero
         /\ RawCell(i, ColProfitLoss) = Empty => df[i].ProfitLoss = Zero

====
